---------------------------- MODULE Spec2Model ----------------------------
(***************************************************************************)
(* Storage layer of the client: OverlayDB (util/src/overlaydb.rs), a       *)
(* reference-counted memory overlay over a backing key/value database, and *)
(* the write-queued Database service (db/src/database.rs).                 *)
(*                                                                         *)
(* Spec   : OverlayDB over its backing database.                           *)
(* SpecDb : Database with its WriteQue in front of the engine.             *)
(***************************************************************************)
EXTENDS Integers, Sequences, FiniteSets, TLC

\* ------------------------------------------------------------------ bounds
\* Number of distinct contents (and so of content hashes) of the overlay model.
NumKeys == 2
\* Largest absolute reference count an overlay entry is driven to.
MaxRc == 2
\* Keys and values of the Database model.
NumDbKeys == 2
NumDbValues == 2
\* Longest write log the Database model builds up.
MaxLog == 3
\* Largest capacity (cache_len) the WriteQue is created with; DEFAULT_CACHE_LEN,
\* scaled down, is one of 1..MaxCacheLen.
MaxCacheLen == 1
\* Largest iterator handle the Database model hands out.
MaxHandle == 2
\* Longest write log flush_all is run on, as whole flush batches plus extra entries.
MaxBatches == 1
MaxExtra == 1
\* The clock stops here, past two fetch deadlines.
MaxClock == 62
\* Number of distinct keys used when every operation of the service is enabled.
NumSvcKeys == 1

\* ----------------------------------------------------------- common values
\* Option<T>: None, or Some(x).
None == << >>
Some(x) == << x >>
is_none(o) == o = None
is_some(o) == o # None
unwrap(o) == o[1]

\* The empty HashMap, and HashMap helpers (a map is a function on its key set).
EmptyMap == [k \in {} |-> 0]
map_insert(m, k, v) == [x \in (DOMAIN m) \cup {k} |-> IF x = k THEN v ELSE m[x]]
map_remove(m, k) == [x \in (DOMAIN m) \ {k} |-> m[x]]
map_get(m, k) == IF k \in DOMAIN m THEN Some(m[k]) ELSE None

\* ------------------------------------------------------------ OverlayDB data
\* Contents are numbered 1..NumKeys; the content b"" of a placeholder is 0.
Values == 1 .. NumKeys
Keys == 1 .. NumKeys
EmptyBytes == 0
\* The content hash: injective, and not the identity on the numbering.
sha3(value) == NumKeys + 1 - value

DeletionMode == {"Ignore", "Remove"}

VARIABLES
    overlay,    \* OverlayDB.overlay: MemoryDB, key -> [value, rc]
    backing,    \* OverlayDB.backing: the database's content, key -> value
    mode,       \* OverlayDB.mode
    res,        \* what the last OverlayDB call did and returned
    db,         \* Database.db: TRUE when the engine handle is held
    disk,       \* the engine's content at the database path, key -> value
    cache,      \* WriteQue.cache
    write_log,  \* WriteQue.write_log
    cache_len,  \* WriteQue.cache_len
    latest,     \* per key, the last put/delete issued (history)
    dbres,      \* what the last Database call did and returned
    iterators,  \* Database.iterators: handle -> the items the DBIterator has left
    handed,     \* the handles iter() has returned so far (history)
    dangling,   \* the handles whose DBIterator belongs to an engine since released
    io_failed,  \* the engine rejected a batch write of the last call
    pc,         \* where a call taken step by step stands, and its loop turns so far
    fetcher,    \* ContentFetcherHandler: status (with its deadline and receiver), control, client
    now,        \* Instant::now(), in seconds
    fres        \* the last callback of the handler, the Next it returned, and the
                \* calls of Client::close and failed expect()s so far (history)

overlayVars == << overlay, backing, mode, res >>
dbVars == << db, disk, cache, write_log, cache_len, latest, dbres >>
iterVars == << iterators, handed, dangling >>
fetchVars == << fetcher, now, fres >>
vars == << overlay, backing, mode, res, db, disk, cache, write_log, cache_len, latest, dbres,
          iterators, handed, dangling, io_failed, pc, fetcher, now, fres >>

\* ------------------------------------------------- backing database (kvdb)
\* DBTransaction: an ordered list of operations.
batch_put(batch, key, value) == Append(batch, [op |-> "put", key |-> key, value |-> value])
batch_delete(batch, key) == Append(batch, [op |-> "delete", key |-> key, value |-> EmptyBytes])

backing_get(store, key) == map_get(store, key)

RECURSIVE backing_write(_, _)
backing_write(store, batch) ==
    IF batch = << >> THEN store
    ELSE LET o == Head(batch) IN
         backing_write(IF o.op = "put" THEN map_insert(store, o.key, o.value)
                                       ELSE map_remove(store, o.key),
                       Tail(batch))

\* ------------------------------------------------------ MemoryDB (overlay)
rc_of(data, key) == IF key \in DOMAIN data THEN data[key].rc ELSE 0

MemoryDB_raw(data, key) == map_get(data, key)

\* insert/emplace: the count goes up by one; the content is stored when the entry
\* is new or holds no pending insertion (count <= 0).
MemoryDB_emplace(data, key, value) ==
    IF key \in DOMAIN data
    THEN IF data[key].rc <= 0
         THEN map_insert(data, key, [value |-> value, rc |-> data[key].rc + 1])
         ELSE map_insert(data, key, [value |-> data[key].value, rc |-> data[key].rc + 1])
    ELSE map_insert(data, key, [value |-> value, rc |-> 1])

MemoryDB_insert(data, value) == MemoryDB_emplace(data, sha3(value), value)

MemoryDB_remove(data, key) ==
    IF key \in DOMAIN data
    THEN map_insert(data, key, [value |-> data[key].value, rc |-> data[key].rc - 1])
    ELSE map_insert(data, key, [value |-> EmptyBytes, rc |-> 0 - 1])

\* denote keeps an entry that is already there and returns the entry's content.
MemoryDB_denote(data, key, value) ==
    IF key \in DOMAIN data THEN data ELSE map_insert(data, key, [value |-> value, rc |-> 0])

\* drain hands out every entry in the map's iteration order, which is any order.
MemoryDB_drain_orders(data) ==
    { s \in [1 .. Cardinality(DOMAIN data) -> DOMAIN data] :
        \A i, j \in DOMAIN s : i # j => s[i] # s[j] }

\* ------------------------------------------------------------- OverlayDB
\* Result of commit_to_batch so far: Ok with the batch and the count `ret` (and the
\* traced count `deletes`), or the error with the key and count it carries.
Ok(batch, ret, deletes) ==
    [kind |-> "Ok", key |-> 0, rc |-> 0, batch |-> batch, ret |-> ret, deletes |-> deletes]
Err(kind, key, rc, batch, ret, deletes) ==
    [kind |-> kind, key |-> key, rc |-> rc, batch |-> batch, ret |-> ret, deletes |-> deletes]

\* Variants of commit_entry with one slip each.
\* The deletion is staged without looking the key up in the backing store.
commit_entry_unchecked_delete(m, store, key, value, rc, batch, ret, deletes) ==
    CASE rc = 0 -> Ok(batch, ret, deletes)
      [] rc = 1 ->
            IF is_none(backing_get(store, key))
            THEN Ok(batch_put(batch, key, value), ret + 1, deletes)
            ELSE IF m = "Remove"
                 THEN Err("InsertionInvalid", key, rc, batch, ret, deletes)
                 ELSE Ok(batch, ret + 1, deletes)
      [] rc = 0 - 1 ->
            IF m = "Remove"
            THEN Ok(batch_delete(batch, key), ret + 1, deletes + 1)
            ELSE Ok(batch, ret + 1, deletes + 1)
      [] OTHER -> Err("InvalidReferenceCount", key, rc, batch, ret, deletes)

\* A re-insertion of stored content is tolerated in both modes.
commit_entry_unchecked_insert(m, store, key, value, rc, batch, ret, deletes) ==
    CASE rc = 0 -> Ok(batch, ret, deletes)
      [] rc = 1 ->
            IF is_none(backing_get(store, key))
            THEN Ok(batch_put(batch, key, value), ret + 1, deletes)
            ELSE Ok(batch, ret + 1, deletes)
      [] rc = 0 - 1 ->
            IF m = "Remove"
            THEN IF is_none(backing_get(store, key))
                 THEN Err("DeletionInvalid", key, rc, batch, ret, deletes + 1)
                 ELSE Ok(batch_delete(batch, key), ret + 1, deletes + 1)
            ELSE Ok(batch, ret + 1, deletes + 1)
      [] OTHER -> Err("InvalidReferenceCount", key, rc, batch, ret, deletes)

\* Counts above 1 are taken as an insertion, counts below -1 as a deletion.
commit_entry_sign_only(m, store, key, value, rc, batch, ret, deletes) ==
    CASE rc = 0 -> Ok(batch, ret, deletes)
      [] rc >= 1 ->
            IF is_none(backing_get(store, key))
            THEN Ok(batch_put(batch, key, value), ret + 1, deletes)
            ELSE IF m = "Remove"
                 THEN Err("InsertionInvalid", key, rc, batch, ret, deletes)
                 ELSE Ok(batch, ret + 1, deletes)
      [] OTHER ->
            IF m = "Remove"
            THEN IF is_none(backing_get(store, key))
                 THEN Err("DeletionInvalid", key, rc, batch, ret, deletes + 1)
                 ELSE Ok(batch_delete(batch, key), ret + 1, deletes + 1)
            ELSE Ok(batch, ret + 1, deletes + 1)

\* The deletion mode is not consulted: a net deletion is always applied.
commit_entry_always_remove(m, store, key, value, rc, batch, ret, deletes) ==
    CASE rc = 0 -> Ok(batch, ret, deletes)
      [] rc = 1 ->
            IF is_none(backing_get(store, key))
            THEN Ok(batch_put(batch, key, value), ret + 1, deletes)
            ELSE IF m = "Remove"
                 THEN Err("InsertionInvalid", key, rc, batch, ret, deletes)
                 ELSE Ok(batch, ret + 1, deletes)
      [] rc = 0 - 1 ->
            IF is_none(backing_get(store, key))
            THEN IF m = "Remove"
                 THEN Err("DeletionInvalid", key, rc, batch, ret, deletes + 1)
                 ELSE Ok(batch, ret + 1, deletes + 1)
            ELSE Ok(batch_delete(batch, key), ret + 1, deletes + 1)
      [] OTHER -> Err("InvalidReferenceCount", key, rc, batch, ret, deletes)

\* Under Remove the deletion is validated and counted, but not staged.
commit_entry_delete_not_staged(m, store, key, value, rc, batch, ret, deletes) ==
    CASE rc = 0 -> Ok(batch, ret, deletes)
      [] rc = 1 ->
            IF is_none(backing_get(store, key))
            THEN Ok(batch_put(batch, key, value), ret + 1, deletes)
            ELSE IF m = "Remove"
                 THEN Err("InsertionInvalid", key, rc, batch, ret, deletes)
                 ELSE Ok(batch, ret + 1, deletes)
      [] rc = 0 - 1 ->
            IF m = "Remove"
            THEN IF is_none(backing_get(store, key))
                 THEN Err("DeletionInvalid", key, rc, batch, ret, deletes + 1)
                 ELSE Ok(batch, ret + 1, deletes + 1)
            ELSE Ok(batch, ret + 1, deletes + 1)
      [] OTHER -> Err("InvalidReferenceCount", key, rc, batch, ret, deletes)

\* A count of 0 is not skipped but handled as an insertion.
commit_entry_zero_as_insert(m, store, key, value, rc, batch, ret, deletes) ==
    CASE rc = 0 \/ rc = 1 ->
            IF is_none(backing_get(store, key))
            THEN Ok(batch_put(batch, key, value), ret + 1, deletes)
            ELSE IF m = "Remove"
                 THEN Err("InsertionInvalid", key, rc, batch, ret, deletes)
                 ELSE Ok(batch, ret + 1, deletes)
      [] rc = 0 - 1 ->
            IF m = "Remove"
            THEN IF is_none(backing_get(store, key))
                 THEN Err("DeletionInvalid", key, rc, batch, ret, deletes + 1)
                 ELSE Ok(batch_delete(batch, key), ret + 1, deletes + 1)
            ELSE Ok(batch, ret + 1, deletes + 1)
      [] OTHER -> Err("InvalidReferenceCount", key, rc, batch, ret, deletes)

\* Only the staged operations are counted.
commit_entry_counts_staged(m, store, key, value, rc, batch, ret, deletes) ==
    CASE rc = 0 -> Ok(batch, ret, deletes)
      [] rc = 1 ->
            IF is_none(backing_get(store, key))
            THEN Ok(batch_put(batch, key, value), ret + 1, deletes)
            ELSE IF m = "Remove"
                 THEN Err("InsertionInvalid", key, rc, batch, ret, deletes)
                 ELSE Ok(batch, ret, deletes)
      [] rc = 0 - 1 ->
            IF m = "Remove"
            THEN IF is_none(backing_get(store, key))
                 THEN Err("DeletionInvalid", key, rc, batch, ret, deletes + 1)
                 ELSE Ok(batch_delete(batch, key), ret + 1, deletes + 1)
            ELSE Ok(batch, ret, deletes + 1)
      [] OTHER -> Err("InvalidReferenceCount", key, rc, batch, ret, deletes)

\* The match of commit_to_batch on one drained entry: the error it returns, or
\* the batch and count it goes on with.
commit_entry(m, store, key, value, rc, batch, ret, deletes) ==
    CASE rc = 0 -> Ok(batch, ret, deletes)
      [] rc = 1 ->
            IF is_none(backing_get(store, key))
            THEN Ok(batch_put(batch, key, value), ret + 1, deletes)
            ELSE IF m = "Remove"
                 THEN Err("InsertionInvalid", key, rc, batch, ret, deletes)
                 ELSE Ok(batch, ret + 1, deletes)
      [] rc = 0 - 1 ->
            IF m = "Remove"
            THEN IF is_none(backing_get(store, key))
                 THEN Err("DeletionInvalid", key, rc, batch, ret, deletes + 1)
                 ELSE Ok(batch_delete(batch, key), ret + 1, deletes + 1)
            ELSE Ok(batch, ret + 1, deletes + 1)
      [] OTHER -> Err("InvalidReferenceCount", key, rc, batch, ret, deletes)

RECURSIVE commit_loop(_, _, _, _, _)
commit_loop(m, store, drained, order, acc) ==
    IF order = << >> THEN acc
    ELSE LET key == Head(order)
             r == commit_entry(m, store, key, drained[key].value, drained[key].rc,
                               acc.batch, acc.ret, acc.deletes)
         IN  IF r.kind = "Ok"
             THEN commit_loop(m, store, drained, Tail(order), r)
             ELSE r

\* commit_to_batch over the drained overlay, taken in the order `order`.
commit_to_batch(m, store, drained, order) ==
    commit_loop(m, store, drained, order, Ok(<< >>, 0, 0))

\* Variant of commit_store: what was staged is written also when commit_to_batch failed.
commit_store_partial(store, r) == backing_write(store, r.batch)

\* The store after commit(): the batch is written only when commit_to_batch
\* returned Ok.
commit_store(store, r) == IF r.kind = "Ok" THEN backing_write(store, r.batch) ELSE store

\* res: the call (op, key), its result (kind, rc, ret, val) and, for commit, the
\* overlay it drained, the store it found, the batch it staged and its delete count.
NoRes ==
    [op |-> "new", key |-> 0, kind |-> "Ok", rc |-> 0, ret |-> 0, val |-> None,
     drained |-> EmptyMap, before |-> EmptyMap, batch |-> << >>, deletes |-> 0]

OverlayDB_insert(value) ==
    /\ rc_of(overlay, sha3(value)) < MaxRc
    /\ overlay' = MemoryDB_insert(overlay, value)
    /\ res' = [NoRes EXCEPT !.op = "insert", !.key = sha3(value)]
    /\ UNCHANGED << backing, mode >>

OverlayDB_emplace(key, value) ==
    /\ rc_of(overlay, key) < MaxRc
    /\ overlay' = MemoryDB_emplace(overlay, key, value)
    /\ res' = [NoRes EXCEPT !.op = "emplace", !.key = key]
    /\ UNCHANGED << backing, mode >>

OverlayDB_remove(key) ==
    /\ rc_of(overlay, key) > 0 - MaxRc
    /\ overlay' = MemoryDB_remove(overlay, key)
    /\ res' = [NoRes EXCEPT !.op = "remove", !.key = key]
    /\ UNCHANGED << backing, mode >>

\* A commit() that puts the drained entries back when the validation fails.
OverlayDB_commit_restoring ==
    \E order \in MemoryDB_drain_orders(overlay) :
        LET r == commit_to_batch(mode, backing, overlay, order) IN
        /\ overlay' = IF r.kind = "Ok" THEN EmptyMap ELSE overlay
        /\ backing' = commit_store(backing, r)
        /\ res' = [op |-> "commit", key |-> r.key, kind |-> r.kind, rc |-> r.rc,
                   ret |-> r.ret, val |-> None, drained |-> overlay, before |-> backing,
                   batch |-> r.batch, deletes |-> r.deletes]
        /\ UNCHANGED mode

OverlayDB_commit ==
    \E order \in MemoryDB_drain_orders(overlay) :
        LET r == commit_to_batch(mode, backing, overlay, order) IN
        /\ overlay' = EmptyMap
        /\ backing' = commit_store(backing, r)
        /\ res' = [op |-> "commit", key |-> r.key, kind |-> r.kind, rc |-> r.rc,
                   ret |-> r.ret, val |-> None, drained |-> overlay, before |-> backing,
                   batch |-> r.batch, deletes |-> r.deletes]
        /\ UNCHANGED mode

\* A revert() that keeps the overlay.
OverlayDB_revert_keep ==
    /\ res' = [NoRes EXCEPT !.op = "revert"]
    /\ UNCHANGED << overlay, backing, mode >>

OverlayDB_revert ==
    /\ overlay' = EmptyMap
    /\ res' = [NoRes EXCEPT !.op = "revert"]
    /\ UNCHANGED << backing, mode >>

\* payload(): the backing database's value of the key.
OverlayDB_payload(store, key) == backing_get(store, key)

\* Variant of get_result: a pending removal reads through in either mode.
get_result_read_through(m, data, store, key) ==
    LET e == MemoryDB_raw(data, key) IN
    IF is_some(e) /\ unwrap(e).rc > 0
    THEN [val |-> Some(unwrap(e).value), overlay |-> data]
    ELSE LET x == OverlayDB_payload(store, key) IN
         IF is_some(x)
         THEN LET d == MemoryDB_denote(data, key, unwrap(x)) IN
              [val |-> Some(d[key].value), overlay |-> d]
         ELSE [val |-> None, overlay |-> data]

\* Variant of get_result: the overlay alone is consulted, with no read-through.
get_result_overlay_only(m, data, store, key) ==
    LET e == MemoryDB_raw(data, key) IN
    IF is_some(e) /\ unwrap(e).rc > 0
    THEN [val |-> Some(unwrap(e).value), overlay |-> data]
    ELSE [val |-> None, overlay |-> data]

\* get(): the value returned and the overlay it leaves (a read-through is denoted).
get_result(m, data, store, key) ==
    LET e == MemoryDB_raw(data, key) IN
    IF is_some(e) /\ unwrap(e).rc > 0
    THEN [val |-> Some(unwrap(e).value), overlay |-> data]
    ELSE IF is_some(e) /\ unwrap(e).rc = 0 - 1 /\ m = "Remove"
    THEN [val |-> None, overlay |-> data]
    ELSE LET x == OverlayDB_payload(store, key) IN
         IF is_some(x)
         THEN LET d == MemoryDB_denote(data, key, unwrap(x)) IN
              [val |-> Some(d[key].value), overlay |-> d]
         ELSE [val |-> None, overlay |-> data]

OverlayDB_get(key) ==
    LET g == get_result(mode, overlay, backing, key) IN
    /\ overlay' = g.overlay
    /\ res' = [NoRes EXCEPT !.op = "get", !.key = key, !.val = g.val]
    /\ UNCHANGED << backing, mode >>

\* ------------------------------------------------------ Database (db crate)
DbKeys == 1 .. NumDbKeys
DbValues == 1 .. NumDbValues
FLUSH_BATCH_SIZE == 1048

\* rocksdb WriteBatch and DB::write: the operations apply in the order staged.
WriteBatch_put(batch, key, value) == Append(batch, [op |-> "put", key |-> key, value |-> value])
WriteBatch_delete(batch, key) == Append(batch, [op |-> "delete", key |-> key, value |-> 0])

RECURSIVE DB_write(_, _)
DB_write(content, batch) ==
    IF batch = << >> THEN content
    ELSE LET o == Head(batch) IN
         DB_write(IF o.op = "put" THEN map_insert(content, o.key, o.value)
                                  ELSE map_remove(content, o.key),
                  Tail(batch))

\* WriteQue, as a record of its cache and write_log (cache_len is the capacity).
WriteQue_write(que, key, val) ==
    [cache |-> map_insert(que.cache, key, val), write_log |-> Append(que.write_log, key)]

WriteQue_remove(que, key) ==
    [cache |-> map_remove(que.cache, key), write_log |-> Append(que.write_log, key)]

WriteQue_get(que, key) == map_get(que.cache, key)

WriteQue_is_empty(que) == que.write_log = << >>

\* A turn of the flush loop that evicts as soon as the cache is at its capacity.
flush_entry_evict_at_capacity(c, cap, next, batch) ==
    IF Cardinality(DOMAIN c) >= cap
    THEN [cache |-> map_remove(c, next),
          batch |-> IF next \in DOMAIN c THEN WriteBatch_put(batch, next, c[next])
                                         ELSE WriteBatch_delete(batch, next)]
    ELSE [cache |-> c,
          batch |-> IF next \in DOMAIN c THEN WriteBatch_put(batch, next, c[next])
                                         ELSE WriteBatch_delete(batch, next)]

\* A turn of the flush loop that tolerates one key over the capacity.
flush_entry_lenient(c, cap, next, batch) ==
    IF Cardinality(DOMAIN c) > cap + 1
    THEN [cache |-> map_remove(c, next),
          batch |-> IF next \in DOMAIN c THEN WriteBatch_put(batch, next, c[next])
                                         ELSE WriteBatch_delete(batch, next)]
    ELSE [cache |-> c,
          batch |-> IF next \in DOMAIN c THEN WriteBatch_put(batch, next, c[next])
                                         ELSE WriteBatch_delete(batch, next)]

\* A turn of the flush loop that evicts a key over capacity without staging it.
flush_entry_drop(c, cap, next, batch) ==
    IF Cardinality(DOMAIN c) > cap
    THEN [cache |-> map_remove(c, next), batch |-> batch]
    ELSE [cache |-> c,
          batch |-> IF next \in DOMAIN c THEN WriteBatch_put(batch, next, c[next])
                                         ELSE WriteBatch_delete(batch, next)]

\* A turn of the flush loop that never evicts the popped key.
flush_entry_keep(c, cap, next, batch) ==
    [cache |-> c,
     batch |-> IF next \in DOMAIN c THEN WriteBatch_put(batch, next, c[next])
                                    ELSE WriteBatch_delete(batch, next)]

\* One turn of the loop of WriteQue::flush on the popped key `next`: the cache it
\* leaves and the batch it goes on with.
flush_entry(c, cap, next, batch) ==
    IF Cardinality(DOMAIN c) > cap
    THEN [cache |-> map_remove(c, next),
          batch |-> IF next \in DOMAIN c THEN WriteBatch_put(batch, next, c[next])
                                         ELSE WriteBatch_delete(batch, next)]
    ELSE [cache |-> c,
          batch |-> IF next \in DOMAIN c THEN WriteBatch_put(batch, next, c[next])
                                         ELSE WriteBatch_delete(batch, next)]

RECURSIVE flush_loop(_, _, _, _, _)
flush_loop(que, cap, keys, so_far, batch) ==
    IF so_far = keys \/ que.write_log = << >>
    THEN [cache |-> que.cache, write_log |-> que.write_log, batch |-> batch]
    ELSE LET e == flush_entry(que.cache, cap, Head(que.write_log), batch) IN
         flush_loop([cache |-> e.cache, write_log |-> Tail(que.write_log)],
                    cap, keys, so_far + 1, e.batch)

\* WriteQue::flush(db, keys): the queue it leaves and the engine content after
\* db.write(batch).
WriteQue_flush(que, cap, content, keys) ==
    LET f == flush_loop(que, cap, keys, 0, << >>) IN
    [cache |-> f.cache, write_log |-> f.write_log, content |-> DB_write(content, f.batch)]

\* The loop of Database::flush_all: flush until the queue is empty.
RECURSIVE flush_all_loop(_, _, _)
flush_all_loop(que, cap, content) ==
    IF WriteQue_is_empty(que)
    THEN [cache |-> que.cache, write_log |-> que.write_log, content |-> content]
    ELSE LET f == WriteQue_flush(que, cap, content, FLUSH_BATCH_SIZE) IN
         flush_all_loop([cache |-> f.cache, write_log |-> f.write_log], cap, f.content)

write_que == [cache |-> cache, write_log |-> write_log]

\* dbres: the call (op, key), its result (kind, val) and, for the calls that have
\* them, the prefix or the transaction's operations given, the item or flag
\* returned and the batch staged.
DbRes(op, kind, key, val) ==
    [op |-> op, kind |-> kind, key |-> key, val |-> val,
     prefix |-> << >>, ops |-> << >>, item |-> None, flag |-> FALSE, batch |-> << >>]

\* An open() that replaces the engine handle without looking at it.
Database_open_unchecked ==
    /\ db' = TRUE
    /\ dbres' = DbRes("open", "Ok", 0, None)
    /\ UNCHANGED << disk, cache, write_log, cache_len, latest >>

Database_open ==
    /\ IF db
       THEN /\ dbres' = DbRes("open", "AlreadyOpen", 0, None)
            /\ UNCHANGED db
       ELSE /\ db' = TRUE
            /\ dbres' = DbRes("open", "Ok", 0, None)
    /\ UNCHANGED << disk, cache, write_log, cache_len, latest >>

Database_flush ==
    /\ IF ~db
       THEN UNCHANGED << disk, cache, write_log >>
       ELSE LET f == WriteQue_flush(write_que, cache_len, disk, FLUSH_BATCH_SIZE) IN
            /\ cache' = f.cache
            /\ write_log' = f.write_log
            /\ disk' = f.content
    /\ dbres' = DbRes("flush", "Ok", 0, None)
    /\ UNCHANGED << db, cache_len, latest >>

Database_flush_all ==
    /\ IF ~db
       THEN UNCHANGED << disk, cache, write_log >>
       ELSE LET f == flush_all_loop(write_que, cache_len, disk) IN
            /\ cache' = f.cache
            /\ write_log' = f.write_log
            /\ disk' = f.content
    /\ dbres' = DbRes("flush_all", "Ok", 0, None)
    /\ UNCHANGED << db, cache_len, latest >>

\* close(): flush_all(), its result dropped, then the handle is released.
Database_close ==
    /\ IF ~db
       THEN /\ dbres' = DbRes("close", "IsClosed", 0, None)
            /\ UNCHANGED << db, disk, cache, write_log >>
       ELSE LET f == flush_all_loop(write_que, cache_len, disk) IN
            /\ cache' = f.cache
            /\ write_log' = f.write_log
            /\ disk' = f.content
            /\ db' = FALSE
            /\ dbres' = DbRes("close", "Ok", 0, None)
    /\ UNCHANGED << cache_len, latest >>

Database_put(key, value) ==
    /\ Len(write_log) < MaxLog
    /\ LET q == WriteQue_write(write_que, key, value) IN
       /\ cache' = q.cache
       /\ write_log' = q.write_log
    /\ latest' = map_insert(latest, key, Some(value))
    /\ dbres' = DbRes("put", "Ok", key, None)
    /\ UNCHANGED << db, disk, cache_len >>

Database_delete(key) ==
    /\ Len(write_log) < MaxLog
    /\ LET q == WriteQue_remove(write_que, key) IN
       /\ cache' = q.cache
       /\ write_log' = q.write_log
    /\ latest' = map_insert(latest, key, None)
    /\ dbres' = DbRes("delete", "Ok", key, None)
    /\ UNCHANGED << db, disk, cache_len >>

\* A get that checks the engine handle before the write cache.
db_get_closed_first(que, open, content, key) ==
    IF ~open
    THEN [kind |-> "IsClosed", val |-> None]
    ELSE IF is_some(WriteQue_get(que, key))
         THEN [kind |-> "Ok", val |-> WriteQue_get(que, key)]
         ELSE [kind |-> "Ok", val |-> map_get(content, key)]

\* Database::get: the write cache first, then the engine; IsClosed without a handle.
db_get(que, open, content, key) ==
    LET cache_hit == WriteQue_get(que, key) IN
    IF is_some(cache_hit)
    THEN [kind |-> "Ok", val |-> cache_hit]
    ELSE IF ~open
         THEN [kind |-> "IsClosed", val |-> None]
         ELSE [kind |-> "Ok", val |-> map_get(content, key)]

Database_get(key) ==
    /\ LET r == db_get(write_que, db, disk, key) IN
       dbres' = DbRes("get", r.kind, key, r.val)
    /\ UNCHANGED << db, disk, cache, write_log, cache_len, latest >>

\* Keys as byte strings: key k of the model is the byte string KeyBytes[k], and the
\* engine keeps its keys in the lexicographic order of their bytes.
KeyBytes == << << 2 >>, << 1, 1 >>, << 1 >>, << 1, 2 >>, << 2, 1 >>, << 2, 2 >> >>
key_bytes(k) == KeyBytes[k]
Prefixes == { << >>, << 1 >>, << 2 >>, << 1, 1 >>, << 1, 2 >>, << 2, 1 >>, << 2, 2 >> }

bytes_lt(a, b) ==
    \E i \in 1 .. Len(b) :
        /\ \A j \in 1 .. (i - 1) : j <= Len(a) /\ a[j] = b[j]
        /\ (i = Len(a) + 1 \/ (i <= Len(a) /\ a[i] < b[i]))
bytes_le(a, b) == a = b \/ bytes_lt(a, b)

\* db.iterator(IteratorMode::From(from, Direction::Forward)): the engine's pairs with
\* a key >= from, in key order; IteratorMode::Start is From(b"").
RECURSIVE DB_iterator(_, _)
DB_iterator(content, from) ==
    LET ks == { k \in DOMAIN content : bytes_le(from, key_bytes(k)) } IN
    IF ks = {} THEN << >>
    ELSE LET first == CHOOSE k \in ks : \A j \in ks : bytes_le(key_bytes(k), key_bytes(j)) IN
         << [key |-> first, value |-> content[first]] >>
             \o DB_iterator(map_remove(content, first), from)

SvcKeys == 1 .. NumSvcKeys

\* A transaction holds its puts (writes) and its deletes (removes) in two lists:
\* DBTransaction::put appends to the first, DBTransaction::delete to the second.
DBTransaction_new == [writes |-> << >>, removes |-> << >>]
DBTransaction_put(t, key, value) ==
    [writes |-> Append(t.writes, [key |-> key, value |-> value]), removes |-> t.removes]
DBTransaction_delete(t, key) == [writes |-> t.writes, removes |-> Append(t.removes, key)]

\* The transaction a caller builds by issuing the operations ops in their order.
RECURSIVE DBTransaction_build(_, _)
DBTransaction_build(t, ops) ==
    IF ops = << >> THEN t
    ELSE DBTransaction_build(IF Head(ops).op = "put"
                             THEN DBTransaction_put(t, Head(ops).key, Head(ops).value)
                             ELSE DBTransaction_delete(t, Head(ops).key),
                             Tail(ops))

\* The operations a caller adds to one transaction, in the order added.
TxOp ==
    { [op |-> "put", key |-> k, value |-> v] : k \in SvcKeys, v \in DbValues }
        \cup { [op |-> "delete", key |-> k, value |-> 0] : k \in SvcKeys }
Transactions == { << >> } \cup { << a >> : a \in TxOp } \cup { << a, b >> : a \in TxOp, b \in TxOp }

\* The batch Database::write builds: every put of the transaction, then every delete.
RECURSIVE write_batch(_, _, _)
write_batch(writes, removes, batch) ==
    IF writes # << >>
    THEN write_batch(Tail(writes), removes,
                     WriteBatch_put(batch, Head(writes).key, Head(writes).value))
    ELSE IF removes # << >>
    THEN write_batch(writes, Tail(removes), WriteBatch_delete(batch, Head(removes)))
    ELSE batch

\* write(transaction) for the transaction built from ops; dbres keeps ops.
Database_write(ops) ==
    /\ IF ~db
       THEN /\ dbres' = [DbRes("write", "IsClosed", 0, None) EXCEPT !.ops = ops]
            /\ UNCHANGED disk
       ELSE LET transaction == DBTransaction_build(DBTransaction_new, ops)
                batch == write_batch(transaction.writes, transaction.removes, << >>) IN
            /\ disk' = DB_write(disk, batch)
            /\ dbres' = [DbRes("write", "Ok", 0, None) EXCEPT !.ops = ops]
    /\ UNCHANGED << db, cache, write_log, cache_len, latest >>

\* get_by_prefix: the first pair at or after the prefix; slicing a key shorter than
\* the prefix panics.
get_by_prefix_result(open, content, prefix) ==
    IF ~open THEN [kind |-> "IsClosed", val |-> None]
    ELSE LET iter == DB_iterator(content, prefix) IN
         IF iter = << >> THEN [kind |-> "Ok", val |-> None]
         ELSE LET k == key_bytes(Head(iter).key) IN
              IF Len(k) < Len(prefix) THEN [kind |-> "Panic", val |-> None]
              ELSE IF SubSeq(k, 1, Len(prefix)) = prefix
                   THEN [kind |-> "Ok", val |-> Some(Head(iter).value)]
                   ELSE [kind |-> "Ok", val |-> None]

Database_get_by_prefix(prefix) ==
    /\ LET r == get_by_prefix_result(db, disk, prefix) IN
       dbres' = [DbRes("get_by_prefix", r.kind, 0, r.val) EXCEPT !.prefix = prefix]
    /\ UNCHANGED << db, disk, cache, write_log, cache_len, latest >>

Database_is_empty ==
    /\ IF ~db
       THEN dbres' = DbRes("is_empty", "IsClosed", 0, None)
       ELSE dbres' = [DbRes("is_empty", "Ok", 0, None)
                       EXCEPT !.flag = (DB_iterator(disk, << >>) = << >>)]
    /\ UNCHANGED << db, disk, cache, write_log, cache_len, latest >>

\* iterators.keys().last().unwrap_or(&0) + 1
next_handle(table) ==
    (IF DOMAIN table = {} THEN 0 ELSE CHOOSE h \in DOMAIN table : \A g \in DOMAIN table : g <= h) + 1

Database_iter ==
    /\ IF ~db
       THEN /\ dbres' = DbRes("iter", "IsClosed", 0, None)
            /\ UNCHANGED << iterators, handed, dangling >>
       ELSE LET next_iterator == next_handle(iterators) IN
            /\ next_iterator <= MaxHandle
            /\ iterators' = map_insert(iterators, next_iterator, DB_iterator(disk, << >>))
            /\ handed' = handed \cup {next_iterator}
            /\ dangling' = dangling \ {next_iterator}
            /\ dbres' = DbRes("iter", "Ok", next_iterator, None)
    /\ UNCHANGED << db, disk, cache, write_log, cache_len, latest >>

\* iter_next: no-result for a handle the table does not hold; else the iterator's
\* next item. An iterator of a released engine is a dangling reference: the call
\* may return nothing, return the stale iterator's next item, or crash.
Database_iter_next(handle) ==
    /\ IF handle \notin DOMAIN iterators
       THEN /\ dbres' = DbRes("iter_next", "Ok", handle, None)
            /\ UNCHANGED iterators
       ELSE IF handle \in dangling
       THEN \/ /\ dbres' = DbRes("iter_next", "Ok", handle, None)
               /\ UNCHANGED iterators
            \/ /\ iterators[handle] # << >>
               /\ dbres' = [DbRes("iter_next", "Ok", handle, None)
                             EXCEPT !.item = Some(Head(iterators[handle]))]
               /\ iterators' = map_insert(iterators, handle, Tail(iterators[handle]))
            \/ /\ dbres' = DbRes("iter_next", "Crash", handle, None)
               /\ UNCHANGED iterators
       ELSE IF iterators[handle] = << >>
       THEN /\ dbres' = DbRes("iter_next", "Ok", handle, None)
            /\ UNCHANGED iterators
       ELSE /\ dbres' = [DbRes("iter_next", "Ok", handle, None)
                             EXCEPT !.item = Some(Head(iterators[handle]))]
            /\ iterators' = map_insert(iterators, handle, Tail(iterators[handle]))
    /\ UNCHANGED << db, disk, cache, write_log, cache_len, latest, handed, dangling >>

Database_dispose_iter(handle) ==
    /\ iterators' = map_remove(iterators, handle)
    /\ dangling' = dangling \ {handle}
    /\ dbres' = DbRes("dispose_iter", "Ok", handle, None)
    /\ UNCHANGED << db, disk, cache, write_log, cache_len, latest, handed >>

\* close() of the service leaves the iterator table as it is: the iterators it
\* holds now belong to a released engine.
close_dangling == IF db THEN DOMAIN iterators ELSE dangling

OverlayInit ==
    /\ overlay = EmptyMap
    /\ backing = EmptyMap
    /\ mode \in DeletionMode
    /\ res = NoRes

\* The Database is not used by Spec: it stays as Database::new() leaves it.
DbIdle ==
    /\ db = FALSE
    /\ disk = EmptyMap
    /\ cache = EmptyMap
    /\ write_log = << >>
    /\ cache_len = 1
    /\ latest = EmptyMap
    /\ dbres = DbRes("new", "Ok", 0, None)

\* No iterator, and no engine failure.
\* ContentFetcherHandler::new: the fetch not started, control and client held.
FetchInit ==
    /\ fetcher = [status |-> "NotStarted", deadline |-> 0, receiver |-> "none",
                  control |-> TRUE, client |-> TRUE]
    /\ now = 0
    /\ fres = [op |-> "new", next |-> "none", closes |-> 0, panics |-> 0]

\* No call is under way: no loop turn taken, no key popped, nothing staged.
Idle == [at |-> "idle", turns |-> 0, so_far |-> 0, batch |-> << >>]

AuxIdle ==
    /\ iterators = EmptyMap
    /\ handed = {}
    /\ dangling = {}
    /\ io_failed = FALSE
    /\ pc = Idle
    /\ FetchInit

auxVars == << iterators, handed, dangling, io_failed, pc, fetchVars >>

Init == OverlayInit /\ DbIdle /\ AuxIdle

\* emplace is called with the hash of the content as its key (the HashDB contract).
Next ==
    \/ \E v \in Values : OverlayDB_insert(v) /\ UNCHANGED << dbVars, auxVars >>
    \/ \E v \in Values : OverlayDB_emplace(sha3(v), v) /\ UNCHANGED << dbVars, auxVars >>
    \/ \E k \in Keys : OverlayDB_remove(k) /\ UNCHANGED << dbVars, auxVars >>
    \/ OverlayDB_commit /\ UNCHANGED << dbVars, auxVars >>
    \/ OverlayDB_revert /\ UNCHANGED << dbVars, auxVars >>
    \/ \E k \in Keys : OverlayDB_get(k) /\ UNCHANGED << dbVars, auxVars >>

Spec == Init /\ [][Next]_vars

\* The Database alone: a new Database with a WriteQue of some capacity.
OverlayIdle ==
    /\ overlay = EmptyMap
    /\ backing = EmptyMap
    /\ mode = "Ignore"
    /\ res = NoRes

DbInit ==
    /\ db = FALSE
    /\ disk = EmptyMap
    /\ cache = EmptyMap
    /\ write_log = << >>
    /\ cache_len \in 1 .. MaxCacheLen
    /\ latest = EmptyMap
    /\ dbres = DbRes("new", "Ok", 0, None)

InitDb == OverlayIdle /\ DbInit /\ AuxIdle

NextDb ==
    \/ Database_open /\ UNCHANGED << overlayVars, auxVars >>
    \/ Database_close /\ UNCHANGED << overlayVars, auxVars >>
    \/ \E k \in DbKeys, v \in DbValues : Database_put(k, v) /\ UNCHANGED << overlayVars, auxVars >>
    \/ \E k \in DbKeys : Database_delete(k) /\ UNCHANGED << overlayVars, auxVars >>
    \/ Database_flush /\ UNCHANGED << overlayVars, auxVars >>
    \/ Database_flush_all /\ UNCHANGED << overlayVars, auxVars >>
    \/ \E k \in DbKeys : Database_get(k) /\ UNCHANGED << overlayVars, auxVars >>
    \/ \E p \in Prefixes : Database_get_by_prefix(p) /\ UNCHANGED << overlayVars, auxVars >>
    \/ Database_is_empty /\ UNCHANGED << overlayVars, auxVars >>

SpecDb == InitDb /\ [][NextDb]_vars

\* --------------------------------------------------- Database: the whole service
\* Every operation of the service, iterators and transactions included.
DbAux == << overlayVars, io_failed, pc, fetchVars >>

NextSvc ==
    \/ Database_open /\ UNCHANGED << DbAux, iterVars >>
    \/ Database_close /\ dangling' = close_dangling /\ UNCHANGED << DbAux, iterators, handed >>
    \/ \E k \in SvcKeys, v \in DbValues : Database_put(k, v) /\ UNCHANGED << DbAux, iterVars >>
    \/ \E k \in SvcKeys : Database_delete(k) /\ UNCHANGED << DbAux, iterVars >>
    \/ \E t \in Transactions : Database_write(t) /\ UNCHANGED << DbAux, iterVars >>
    \/ Database_flush /\ UNCHANGED << DbAux, iterVars >>
    \/ Database_flush_all /\ UNCHANGED << DbAux, iterVars >>
    \/ \E k \in SvcKeys : Database_get(k) /\ UNCHANGED << DbAux, iterVars >>
    \/ \E p \in Prefixes : Database_get_by_prefix(p) /\ UNCHANGED << DbAux, iterVars >>
    \/ Database_is_empty /\ UNCHANGED << DbAux, iterVars >>
    \/ Database_iter /\ UNCHANGED DbAux
    \/ \E h \in 1 .. MaxHandle : Database_iter_next(h) /\ UNCHANGED DbAux
    \/ \E h \in 1 .. MaxHandle : Database_dispose_iter(h) /\ UNCHANGED DbAux

SpecSvc == InitDb /\ [][NextSvc]_vars

\* ------------------------------------------- Database: an engine that can fail
\* db.write(batch) of the engine: it applies the batch or rejects it whole.
DB_write_io(content, batch, accept) == IF accept THEN DB_write(content, batch) ELSE content

\* WriteQue::flush over an engine that accepts or rejects the batch.
WriteQue_flush_io(que, cap, content, keys, accept) ==
    LET f == flush_loop(que, cap, keys, 0, << >>) IN
    [cache |-> f.cache, write_log |-> f.write_log,
     content |-> DB_write_io(content, f.batch, accept), result |-> "Ok"]

RECURSIVE flush_all_loop_io(_, _, _, _)
flush_all_loop_io(que, cap, content, accept) ==
    IF WriteQue_is_empty(que)
    THEN [cache |-> que.cache, write_log |-> que.write_log, content |-> content, result |-> "Ok"]
    ELSE LET f == WriteQue_flush_io(que, cap, content, FLUSH_BATCH_SIZE, accept) IN
         IF f.result # "Ok" THEN f
         ELSE flush_all_loop_io([cache |-> f.cache, write_log |-> f.write_log], cap,
                                f.content, accept)

Database_flush_io(accept) ==
    /\ IF ~db
       THEN /\ UNCHANGED << disk, cache, write_log >>
            /\ io_failed' = FALSE
            /\ dbres' = DbRes("flush", "Ok", 0, None)
       ELSE LET f == WriteQue_flush_io(write_que, cache_len, disk, FLUSH_BATCH_SIZE, accept) IN
            /\ cache' = f.cache
            /\ write_log' = f.write_log
            /\ disk' = f.content
            /\ io_failed' = ~accept
            /\ dbres' = DbRes("flush", f.result, 0, None)
    /\ UNCHANGED << db, cache_len, latest >>

Database_flush_all_io(accept) ==
    /\ IF ~db
       THEN /\ UNCHANGED << disk, cache, write_log >>
            /\ io_failed' = FALSE
            /\ dbres' = DbRes("flush_all", "Ok", 0, None)
       ELSE LET f == flush_all_loop_io(write_que, cache_len, disk, accept) IN
            /\ cache' = f.cache
            /\ write_log' = f.write_log
            /\ disk' = f.content
            /\ io_failed' = (~accept /\ ~WriteQue_is_empty(write_que))
            /\ dbres' = DbRes("flush_all", f.result, 0, None)
    /\ UNCHANGED << db, cache_len, latest >>

IoQuiet == io_failed' = FALSE /\ UNCHANGED << overlayVars, iterVars, pc, fetchVars >>

NextIo ==
    \/ Database_open /\ IoQuiet
    \/ \E k \in DbKeys, v \in DbValues : Database_put(k, v) /\ IoQuiet
    \/ \E k \in DbKeys : Database_delete(k) /\ IoQuiet
    \/ \E k \in DbKeys : Database_get(k) /\ IoQuiet
    \/ \E accept \in BOOLEAN : Database_flush_io(accept) /\ UNCHANGED << overlayVars, iterVars, pc, fetchVars >>
    \/ \E accept \in BOOLEAN : Database_flush_all_io(accept) /\ UNCHANGED << overlayVars, iterVars, pc, fetchVars >>

SpecIo == InitDb /\ [][NextIo]_vars

\* ------------------------------------------ Database: close() beside writers
\* close() taken in its two critical sections. The first is flush_all(), which
\* holds the queue lock and the handle's read lock until it returns; its result is
\* dropped. The second takes the handle's write lock and releases the handle.
\* Between the two no lock is held and other threads run.
Database_close_flush_all ==
    /\ pc.at = "idle"
    /\ IF ~db
       THEN UNCHANGED << disk, cache, write_log >>
       ELSE LET f == flush_all_loop(write_que, cache_len, disk) IN
            /\ cache' = f.cache
            /\ write_log' = f.write_log
            /\ disk' = f.content
    /\ pc' = [Idle EXCEPT !.at = "close"]
    /\ UNCHANGED << db, cache_len, latest, dbres >>

Database_close_release ==
    /\ pc.at = "close"
    /\ IF ~db
       THEN /\ dbres' = DbRes("close", "IsClosed", 0, None)
            /\ UNCHANGED db
       ELSE /\ db' = FALSE
            /\ dbres' = DbRes("close", "Ok", 0, None)
    /\ pc' = Idle
    /\ UNCHANGED << disk, cache, write_log, cache_len, latest >>

ConcAux == << overlayVars, iterVars, io_failed, fetchVars >>

NextConc ==
    \/ Database_open /\ UNCHANGED << ConcAux, pc >>
    \/ \E k \in DbKeys, v \in DbValues : Database_put(k, v) /\ UNCHANGED << ConcAux, pc >>
    \/ \E k \in DbKeys : Database_delete(k) /\ UNCHANGED << ConcAux, pc >>
    \/ \E k \in DbKeys : Database_get(k) /\ UNCHANGED << ConcAux, pc >>
    \/ Database_close_flush_all /\ UNCHANGED ConcAux
    \/ Database_close_release /\ UNCHANGED ConcAux

SpecConc == InitDb /\ [][NextConc]_vars

\* ------------------------------------------- Database: flush_all() step by step
\* flush_all() taken one step at a time: the test of its while loop, each turn of
\* the loop of WriteQue::flush, and the engine applying the staged batch. It holds
\* the queue lock and the handle's read lock from its entry to its return, so no
\* other call runs in between.
Database_flush_all_enter ==
    /\ pc.at = "idle"
    /\ IF ~db
       THEN /\ dbres' = DbRes("flush_all", "Ok", 0, None)
            /\ UNCHANGED pc
       ELSE /\ pc' = [Idle EXCEPT !.at = "flush_all"]
            /\ UNCHANGED dbres
    /\ UNCHANGED << db, disk, cache, write_log, cache_len, latest >>

\* while !que.is_empty(): return Ok, or call que.flush(&db, FLUSH_BATCH_SIZE).
\* dbres keeps the number of flushes the call made.
Database_flush_all_test ==
    /\ pc.at = "flush_all"
    /\ IF WriteQue_is_empty(write_que)
       THEN /\ dbres' = DbRes("flush_all", "Ok", pc.turns, None)
            /\ pc' = Idle
       ELSE /\ pc' = [at |-> "flush", turns |-> pc.turns, so_far |-> 0, batch |-> << >>]
            /\ UNCHANGED dbres
    /\ UNCHANGED << db, disk, cache, write_log, cache_len, latest >>

\* A turn that stages the oldest key and leaves it in the log.
WriteQue_flush_peek ==
    /\ pc.at = "flush"
    /\ IF pc.so_far = FLUSH_BATCH_SIZE \/ write_log = << >>
       THEN /\ pc' = [pc EXCEPT !.at = "db_write"]
            /\ UNCHANGED << cache, write_log >>
       ELSE LET e == flush_entry(cache, cache_len, Head(write_log), pc.batch) IN
            /\ cache' = e.cache
            /\ write_log' = write_log
            /\ pc' = [pc EXCEPT !.so_far = pc.so_far + 1, !.batch = e.batch]
    /\ UNCHANGED << db, disk, cache_len, latest, dbres >>

\* One turn of the loop of WriteQue::flush: break, or pop the oldest key and
\* stage it.
WriteQue_flush_pop ==
    /\ pc.at = "flush"
    /\ IF pc.so_far = FLUSH_BATCH_SIZE \/ write_log = << >>
       THEN /\ pc' = [pc EXCEPT !.at = "db_write"]
            /\ UNCHANGED << cache, write_log >>
       ELSE LET e == flush_entry(cache, cache_len, Head(write_log), pc.batch) IN
            /\ cache' = e.cache
            /\ write_log' = Tail(write_log)
            /\ pc' = [pc EXCEPT !.so_far = pc.so_far + 1, !.batch = e.batch]
    /\ UNCHANGED << db, disk, cache_len, latest, dbres >>

\* db.write(batch), the engine applying the staged operations in order; when none
\* is left flush returns Ok to the loop of flush_all.
DB_write_step ==
    /\ pc.at = "db_write"
    /\ IF pc.batch = << >>
       THEN /\ pc' = [at |-> "flush_all", turns |-> pc.turns + 1, so_far |-> 0,
                      batch |-> << >>]
            /\ UNCHANGED disk
       ELSE /\ disk' = DB_write(disk, << Head(pc.batch) >>)
            /\ pc' = [pc EXCEPT !.batch = Tail(pc.batch)]
    /\ UNCHANGED << db, cache, write_log, cache_len, latest, dbres >>

\* Lengths of the write log flush_all starts on: whole flush batches and a few
\* entries more.
BigLogs == { b * FLUSH_BATCH_SIZE + e : b \in 0 .. MaxBatches, e \in 0 .. MaxExtra }

\* An open store after a run of put and delete on two keys in turn (or on one key,
\* when they are the same): the cache holds, of the keys written, those last put.
FlushAllInit ==
    /\ db = TRUE
    /\ disk = EmptyMap
    /\ cache_len \in 1 .. MaxCacheLen
    /\ latest = EmptyMap
    /\ dbres = DbRes("open", "Ok", 0, None)
    /\ \E first \in DbKeys, second \in DbKeys, len \in BigLogs :
          /\ write_log = [i \in 1 .. len |-> IF i % 2 = 1 THEN first ELSE second]
          /\ \E cached \in SUBSET { write_log[i] : i \in 1 .. len } :
                cache \in [cached -> DbValues]

InitFlushAll == OverlayIdle /\ FlushAllInit /\ AuxIdle

FlushAllAux == << overlayVars, iterVars, io_failed, fetchVars >>

FlushAllSteps ==
    \/ Database_flush_all_test /\ UNCHANGED FlushAllAux
    \/ WriteQue_flush_pop /\ UNCHANGED FlushAllAux
    \/ DB_write_step /\ UNCHANGED FlushAllAux

NextFlushAll ==
    \/ Database_flush_all_enter /\ UNCHANGED FlushAllAux
    \/ Database_flush_all_test /\ UNCHANGED FlushAllAux
    \/ WriteQue_flush_pop /\ UNCHANGED FlushAllAux
    \/ DB_write_step /\ UNCHANGED FlushAllAux

\* The thread inside flush_all() holds every lock it needs and keeps running.
SpecFlushAll == InitFlushAll /\ [][NextFlushAll]_vars /\ WF_vars(FlushAllSteps)

\* ------------------------------------------------ WriteQue on an open engine
\* The methods of WriteQue, flush with any number of keys, on an engine that is open.
Que_write(key, val) ==
    /\ Len(write_log) < MaxLog
    /\ LET q == WriteQue_write(write_que, key, val) IN
       /\ cache' = q.cache
       /\ write_log' = q.write_log
    /\ dbres' = DbRes("que_write", "Ok", key, None)
    /\ UNCHANGED << db, disk, cache_len, latest >>

Que_remove(key) ==
    /\ Len(write_log) < MaxLog
    /\ LET q == WriteQue_remove(write_que, key) IN
       /\ cache' = q.cache
       /\ write_log' = q.write_log
    /\ dbres' = DbRes("que_remove", "Ok", key, None)
    /\ UNCHANGED << db, disk, cache_len, latest >>

Que_flush(keys) ==
    /\ LET f == WriteQue_flush(write_que, cache_len, disk, keys) IN
       /\ cache' = f.cache
       /\ write_log' = f.write_log
       /\ disk' = f.content
       /\ dbres' = [DbRes("que_flush", "Ok", keys, None)
                       EXCEPT !.batch = flush_loop(write_que, cache_len, keys, 0, << >>).batch]
    /\ UNCHANGED << db, cache_len, latest >>

\* WriteQue::new(cache_len), with the engine it is flushed to open and empty.
QueInit ==
    /\ db = TRUE
    /\ disk = EmptyMap
    /\ cache = EmptyMap
    /\ write_log = << >>
    /\ cache_len \in 1 .. MaxCacheLen
    /\ latest = EmptyMap
    /\ dbres = DbRes("new", "Ok", 0, None)

InitQue == OverlayIdle /\ QueInit /\ AuxIdle

NextQue ==
    \/ \E k \in DbKeys, v \in DbValues : Que_write(k, v) /\ UNCHANGED << overlayVars, auxVars >>
    \/ \E k \in DbKeys : Que_remove(k) /\ UNCHANGED << overlayVars, auxVars >>
    \/ \E n \in 0 .. (MaxLog + 1) : Que_flush(n) /\ UNCHANGED << overlayVars, auxVars >>
    \/ Database_flush_all /\ UNCHANGED << overlayVars, auxVars >>

SpecQue == InitQue /\ [][NextQue]_vars



\* ------------------------------------------- ContentFetcherHandler (dapps)
\* FetchState is NotStarted, InProgress (with a deadline and a receiver), Error
\* or Done. The receiver is "none" while no channel exists, "empty" while the
\* fetch runs, "path" or "error" once the client has sent its FetchResult.
FETCH_TIMEOUT == 30
Methods == {"Get", "Post"}

FetchRes(op, next, closed, panicked) ==
    [op |-> op, next |-> next, closes |-> fres.closes + closed,
     panics |-> fres.panics + panicked]

\* close_client: client.take().expect(..).close(). The client field it leaves,
\* and whether Client::close ran or the expect failed.
close_client(client) ==
    IF client THEN [client |-> FALSE, closed |-> 1, panicked |-> 0]
              ELSE [client |-> FALSE, closed |-> 0, panicked |-> 1]

\* on_request; `started` is whether client.request() returned a receiver.
on_request(method, started) ==
    /\ fres.panics = 0
    /\ IF fetcher.status = "NotStarted"
       THEN IF method = "Get"
            THEN IF ~fetcher.control \/ ~fetcher.client
                 THEN /\ fres' = FetchRes("on_request", "none", 0, 1)
                      /\ fetcher' = [fetcher EXCEPT !.control = FALSE]
                 ELSE /\ fres' = FetchRes("on_request", "read", 0, 0)
                      /\ fetcher' = IF started
                                    THEN [fetcher EXCEPT !.control = FALSE,
                                                         !.status = "InProgress",
                                                         !.deadline = now + FETCH_TIMEOUT,
                                                         !.receiver = "empty"]
                                    ELSE [fetcher EXCEPT !.control = FALSE,
                                                         !.status = "Error"]
            ELSE /\ fres' = FetchRes("on_request", "read", 0, 0)
                 /\ fetcher' = [fetcher EXCEPT !.status = "Error"]
       ELSE /\ fres' = FetchRes("on_request", "read", 0, 0)
            /\ UNCHANGED fetcher
    /\ UNCHANGED now

\* An on_request_readable whose timeout closes the client and keeps the status.
on_request_readable_keep_status(valid) ==
    /\ fres.panics = 0
    /\ IF fetcher.status = "InProgress" /\ fetcher.deadline < now
       THEN LET c == close_client(fetcher.client) IN
            /\ fres' = FetchRes("on_request_readable",
                                IF c.panicked = 1 THEN "none" ELSE "write",
                                c.closed, c.panicked)
            /\ fetcher' = [fetcher EXCEPT !.client = c.client]
       ELSE IF fetcher.status = "InProgress"
       THEN IF fetcher.receiver = "path"
            THEN LET c == close_client(fetcher.client) IN
                 IF c.panicked = 1
                 THEN /\ fres' = FetchRes("on_request_readable", "none", 0, 1)
                      /\ fetcher' = [fetcher EXCEPT !.receiver = "taken"]
                 ELSE /\ fres' = FetchRes("on_request_readable", "write", c.closed, 0)
                      /\ fetcher' = [fetcher EXCEPT !.client = c.client,
                                                    !.status = IF valid THEN "Done"
                                                                        ELSE "Error",
                                                    !.deadline = 0,
                                                    !.receiver = "none"]
            ELSE IF fetcher.receiver = "error"
            THEN /\ fres' = FetchRes("on_request_readable", "write", 0, 0)
                 /\ fetcher' = [fetcher EXCEPT !.status = "Error", !.deadline = 0,
                                               !.receiver = "none"]
            ELSE /\ fres' = FetchRes("on_request_readable", "wait", 0, 0)
                 /\ UNCHANGED fetcher
       ELSE IF fetcher.status = "Error"
       THEN /\ fres' = FetchRes("on_request_readable", "handler", 0, 0)
            /\ UNCHANGED fetcher
       ELSE /\ fres' = FetchRes("on_request_readable", "write", 0, 0)
            /\ UNCHANGED fetcher
    /\ UNCHANGED now

\* on_request_readable; `valid` is whether validate_and_install accepted the
\* bundle. A failed expect unwinds before self.status is assigned.
on_request_readable(valid) ==
    /\ fres.panics = 0
    /\ IF fetcher.status = "InProgress" /\ fetcher.deadline < now
       THEN LET c == close_client(fetcher.client) IN
            IF c.panicked = 1
            THEN /\ fres' = FetchRes("on_request_readable", "none", 0, 1)
                 /\ UNCHANGED fetcher
            ELSE /\ fres' = FetchRes("on_request_readable", "write", c.closed, 0)
                 /\ fetcher' = [fetcher EXCEPT !.client = c.client, !.status = "Error",
                                               !.deadline = 0, !.receiver = "none"]
       ELSE IF fetcher.status = "InProgress"
       THEN IF fetcher.receiver = "path"
            THEN LET c == close_client(fetcher.client) IN
                 IF c.panicked = 1
                 THEN /\ fres' = FetchRes("on_request_readable", "none", 0, 1)
                      /\ fetcher' = [fetcher EXCEPT !.receiver = "taken"]
                 ELSE /\ fres' = FetchRes("on_request_readable", "write", c.closed, 0)
                      /\ fetcher' = [fetcher EXCEPT !.client = c.client,
                                                    !.status = IF valid THEN "Done"
                                                                        ELSE "Error",
                                                    !.deadline = 0,
                                                    !.receiver = "none"]
            ELSE IF fetcher.receiver = "error"
            THEN /\ fres' = FetchRes("on_request_readable", "write", 0, 0)
                 /\ fetcher' = [fetcher EXCEPT !.status = "Error", !.deadline = 0,
                                               !.receiver = "none"]
            ELSE /\ fres' = FetchRes("on_request_readable", "wait", 0, 0)
                 /\ UNCHANGED fetcher
       ELSE IF fetcher.status = "Error"
       THEN /\ fres' = FetchRes("on_request_readable", "handler", 0, 0)
            /\ UNCHANGED fetcher
       ELSE /\ fres' = FetchRes("on_request_readable", "write", 0, 0)
            /\ UNCHANGED fetcher
    /\ UNCHANGED now

on_response ==
    /\ fres.panics = 0
    /\ fres' = FetchRes("on_response",
                        IF fetcher.status = "Done" THEN "write"
                        ELSE IF fetcher.status = "Error" THEN "handler" ELSE "end",
                        0, 0)
    /\ UNCHANGED << fetcher, now >>

on_response_writable ==
    /\ fres.panics = 0
    /\ fres' = FetchRes("on_response_writable",
                        IF fetcher.status = "Error" THEN "handler" ELSE "end", 0, 0)
    /\ UNCHANGED << fetcher, now >>

\* The client's fetch ends and sends its FetchResult into the channel.
Client_fetched(result) ==
    /\ fetcher.receiver = "empty"
    /\ fetcher' = [fetcher EXCEPT !.receiver = result]
    /\ UNCHANGED << now, fres >>

\* Time passes.
Tick(seconds) ==
    /\ now + seconds <= MaxClock
    /\ now' = now + seconds
    /\ UNCHANGED << fetcher, fres >>

InitFetch == OverlayIdle /\ DbIdle /\ AuxIdle

FetchAux == << overlayVars, dbVars, iterVars, io_failed, pc >>

NextFetch ==
    \/ \E method \in Methods, started \in BOOLEAN :
          on_request(method, started) /\ UNCHANGED FetchAux
    \/ \E valid \in BOOLEAN : on_request_readable(valid) /\ UNCHANGED FetchAux
    \/ on_response /\ UNCHANGED FetchAux
    \/ on_response_writable /\ UNCHANGED FetchAux
    \/ \E result \in {"path", "error"} : Client_fetched(result) /\ UNCHANGED FetchAux
    \/ \E seconds \in {1, FETCH_TIMEOUT} : Tick(seconds) /\ UNCHANGED FetchAux

SpecFetch == InitFetch /\ [][NextFetch]_vars

\* ------------------------------------------------- OverlayDB: properties
\* The last call was commit(), and it returned Ok / an error.
Committed == res.op = "commit"
CommitOk == Committed /\ res.kind = "Ok"
CommitFailed == Committed /\ res.kind # "Ok"

\* The entry of `key` in the drained overlay fails the validation of commit.
entry_fails(m, store, drained, key) ==
    /\ key \in DOMAIN drained
    /\ commit_entry(m, store, key, drained[key].value, drained[key].rc, << >>, 0, 0).kind # "Ok"

\* Keys for which the batch holds an operation.
batch_keys(batch) == { batch[i].key : i \in DOMAIN batch }

\* C1: commit() is all-or-nothing. If any drained entry fails validation, commit()
\* returns an error, and a commit() that returns an error leaves the backing store
\* with exactly the key/value pairs it had before the call, whatever was staged
\* for other entries.
C1_CommitAllOrNothing ==
    Committed =>
        /\ (\E k \in DOMAIN res.drained : entry_fails(mode, res.before, res.drained, k))
              => res.kind # "Ok"
        /\ res.kind # "Ok" => backing = res.before

\* C1 witness: a failed commit that had already staged an operation for another entry.
C1_Witness == CommitFailed /\ Len(res.batch) > 0 /\ backing = res.before

\* C3 as stated: under Remove, when the overlay holds a count of -1 for a key
\* absent from the backing store, commit() fails with DeletionInvalid of such a key.
C3_Original ==
    (Committed /\ mode = "Remove") =>
        \A k \in Keys :
            (rc_of(res.drained, k) = 0 - 1 /\ k \notin DOMAIN res.before)
                => /\ res.kind = "DeletionInvalid"
                   /\ rc_of(res.drained, res.key) = 0 - 1
                   /\ res.key \notin DOMAIN res.before

\* C3 amended: under Remove, when the overlay holds a count of -1 for a key k absent
\* from the backing store, commit() fails; the error is that of the entry drained
\* first among the failing ones, so it is DeletionInvalid(k) when k is the only
\* failing entry, and whenever it names k.
C3_DeletionInvalid ==
    (Committed /\ mode = "Remove") =>
        \A k \in Keys :
            (rc_of(res.drained, k) = 0 - 1 /\ k \notin DOMAIN res.before)
                => /\ res.kind # "Ok"
                   /\ entry_fails(mode, res.before, res.drained, res.key)
                   /\ res.key = k => res.kind = "DeletionInvalid"
                   /\ (\A j \in Keys \ {k} : ~entry_fails(mode, res.before, res.drained, j))
                         => (res.kind = "DeletionInvalid" /\ res.key = k)

\* C3 witness: a commit under Remove failed with DeletionInvalid for a removed key
\* that the backing store does not hold.
C3_Witness ==
    /\ CommitFailed /\ mode = "Remove" /\ res.kind = "DeletionInvalid"
    /\ rc_of(res.drained, res.key) = 0 - 1 /\ res.key \notin DOMAIN res.before

\* C4 as stated: when the overlay holds a count of +1 for a key present in the
\* backing store, commit() fails with InsertionInvalid of such a key under Remove,
\* and under Ignore succeeds and leaves the stored value unchanged.
C4_Original ==
    Committed =>
        \A k \in Keys :
            (rc_of(res.drained, k) = 1 /\ k \in DOMAIN res.before)
                => IF mode = "Remove"
                   THEN /\ res.kind = "InsertionInvalid"
                        /\ rc_of(res.drained, res.key) = 1
                        /\ res.key \in DOMAIN res.before
                   ELSE res.kind = "Ok" /\ backing_get(backing, k) = backing_get(res.before, k)

\* C4 amended: when the overlay holds a count of +1 for a key k present in the
\* backing store, then under Remove commit() fails, with InsertionInvalid(k) when k
\* is the only failing entry and whenever the error names k; under Ignore the entry
\* never fails the commit (it succeeds when no other entry fails) and the stored
\* value of k is unchanged.
C4_InsertionInvalid ==
    Committed =>
        \A k \in Keys :
            (rc_of(res.drained, k) = 1 /\ k \in DOMAIN res.before)
                => LET others_pass ==
                           \A j \in Keys \ {k} : ~entry_fails(mode, res.before, res.drained, j)
                   IN  IF mode = "Remove"
                       THEN /\ res.kind # "Ok"
                            /\ res.key = k => res.kind = "InsertionInvalid"
                            /\ others_pass => (res.kind = "InsertionInvalid" /\ res.key = k)
                       ELSE /\ res.kind # "Ok" => res.key # k
                            /\ others_pass => res.kind = "Ok"
                            /\ backing_get(backing, k) = backing_get(res.before, k)

\* C4 witness: the same re-insertion of stored content has been committed: refused
\* with InsertionInvalid under Remove, or accepted under Ignore.
C4_Witness ==
    /\ Committed
    /\ \E k \in Keys :
          /\ rc_of(res.drained, k) = 1 /\ k \in DOMAIN res.before
          /\ \/ mode = "Remove" /\ res.kind = "InsertionInvalid" /\ res.key = k
             \/ mode = "Ignore" /\ res.kind = "Ok"

\* C5 as stated: when the net count of some key is outside -1..1, commit() fails
\* with InvalidReferenceCount of such a key and its count.
C5_Original ==
    Committed =>
        ((\E k \in Keys : rc_of(res.drained, k) \notin {0 - 1, 0, 1})
            => /\ res.kind = "InvalidReferenceCount"
               /\ rc_of(res.drained, res.key) \notin {0 - 1, 0, 1}
               /\ res.rc = rc_of(res.drained, res.key))

\* C5 amended: when the net count of a key k is outside -1..1, commit() fails in
\* either mode; the error is that of the entry drained first among the failing
\* ones, so it is InvalidReferenceCount(k, count) when k is the only failing entry
\* and whenever it names k, and under Ignore it is always an InvalidReferenceCount.
C5_InvalidReferenceCount ==
    Committed =>
        \A k \in Keys :
            rc_of(res.drained, k) \notin {0 - 1, 0, 1}
                => /\ res.kind # "Ok"
                   /\ entry_fails(mode, res.before, res.drained, res.key)
                   /\ res.key = k
                         => (res.kind = "InvalidReferenceCount" /\ res.rc = rc_of(res.drained, k))
                   /\ mode = "Ignore" => res.kind = "InvalidReferenceCount"
                   /\ (\A j \in Keys \ {k} : ~entry_fails(mode, res.before, res.drained, j))
                         => /\ res.kind = "InvalidReferenceCount"
                            /\ res.key = k
                            /\ res.rc = rc_of(res.drained, k)

\* C5 witness: a commit failed with InvalidReferenceCount carrying a count of 2 or
\* more, or of -2 or less.
C5_Witness ==
    /\ CommitFailed /\ res.kind = "InvalidReferenceCount"
    /\ res.rc = rc_of(res.drained, res.key)
    /\ (res.rc >= 2 \/ res.rc <= 0 - 2)


\* No entry other than that of k fails validation in the commit recorded in res.
others_pass(k) == \A j \in Keys \ {k} : ~entry_fails(mode, res.before, res.drained, j)

\* C6: under Ignore no step removes a key from the backing store or changes a stored
\* value; a net removal of a stored key k never fails the commit (remove(k); commit()
\* succeeds) and leaves k stored, and get(k) after that commit returns the stored value.
C6_IgnoreKeepsContent ==
    /\ [][mode = "Ignore" =>
            \A k \in DOMAIN backing : k \in DOMAIN backing' /\ backing'[k] = backing[k]]_vars
    /\ [](Committed /\ mode = "Ignore" =>
            \A k \in Keys :
                (rc_of(res.drained, k) = 0 - 1 /\ k \in DOMAIN res.before)
                    => /\ res.kind # "Ok" => res.key # k
                       /\ others_pass(k) => res.kind = "Ok"
                       /\ backing_get(backing, k) = backing_get(res.before, k))
    /\ [][(CommitOk /\ mode = "Ignore" /\ res'.op = "get"
             /\ rc_of(res.drained, res'.key) = 0 - 1 /\ res'.key \in DOMAIN res.before)
            => res'.val = Some(res.before[res'.key])]_vars

\* C6 witness: under Ignore a commit of a net removal of a stored key succeeded and
\* the key is still stored.
C6_Witness ==
    /\ CommitOk /\ mode = "Ignore"
    /\ \E k \in Keys :
          /\ rc_of(res.drained, k) = 0 - 1
          /\ k \in DOMAIN res.before
          /\ k \in DOMAIN backing

\* C7: under Remove, for a value v whose key k is absent from the backing store:
\* insert(v) leaves a count of +1 with v; commit() of that epoch succeeds and stores
\* v under k; get(k) after a commit reads through to the backing store (v when k was
\* inserted, none when it was deleted); commit() of an epoch whose net operation is
\* remove(k) of the stored k succeeds and deletes k from the backing store.
C7_InsertCommitRemoveCommit ==
    /\ [][(res'.op = "insert" /\ rc_of(overlay, res'.key) = 0)
            => /\ overlay'[res'.key].rc = 1
               /\ sha3(overlay'[res'.key].value) = res'.key]_vars
    /\ [](Committed /\ mode = "Remove" =>
            \A k \in Keys :
                /\ (rc_of(res.drained, k) = 1 /\ k \notin DOMAIN res.before /\ others_pass(k))
                      => /\ res.kind = "Ok"
                         /\ backing_get(backing, k) = Some(res.drained[k].value)
                         /\ sha3(res.drained[k].value) = k
                /\ (rc_of(res.drained, k) = 0 - 1 /\ k \in DOMAIN res.before /\ others_pass(k))
                      => /\ res.kind = "Ok"
                         /\ k \notin DOMAIN backing)
    /\ [][(CommitOk /\ mode = "Remove" /\ res'.op = "get")
            => /\ res'.val = backing_get(backing, res'.key)
               /\ rc_of(res.drained, res'.key) = 0 - 1 => res'.val = None
               /\ rc_of(res.drained, res'.key) = 1
                     => (is_some(res'.val) /\ sha3(unwrap(res'.val)) = res'.key)]_vars

\* C7 witness: under Remove a key stored by an earlier commit has been deleted by a
\* successful commit of its removal.
C7_Witness ==
    /\ CommitOk /\ mode = "Remove"
    /\ \E k \in Keys :
          /\ rc_of(res.drained, k) = 0 - 1
          /\ k \in DOMAIN res.before
          /\ k \notin DOMAIN backing

\* C8: a key whose net count in the epoch is 0 has no put and no delete staged by
\* commit(), its backing-store entry (present with its value, or absent) is the same
\* after the commit as before, and it never fails the commit: commit() succeeds
\* unless another entry fails validation. Both deletion modes.
C8_ZeroNetIsNoOp ==
    Committed =>
        \A k \in Keys :
            rc_of(res.drained, k) = 0
                => /\ k \notin batch_keys(res.batch)
                   /\ backing_get(backing, k) = backing_get(res.before, k)
                   /\ res.kind # "Ok" => res.key # k
                   /\ others_pass(k) => res.kind = "Ok"

\* C8 witness: a commit drained an insert cancelled by a remove (count 0, content
\* held, key not stored) together with an entry for which it staged an operation.
C8_Witness ==
    /\ CommitOk /\ Len(res.batch) > 0
    /\ \E k \in DOMAIN res.drained :
          /\ res.drained[k].rc = 0
          /\ res.drained[k].value # EmptyBytes
          /\ k \notin DOMAIN res.before
          /\ k \notin DOMAIN backing

\* C9: in both deletion modes, after a successful commit() of an epoch whose net
\* operation on hash(v) is insert(v), the backing store holds v under hash(v), and
\* get(hash(v)) then returns v.
C9_InsertCommitGet ==
    /\ [](CommitOk =>
            \A v \in Values :
                rc_of(res.drained, sha3(v)) = 1 => backing_get(backing, sha3(v)) = Some(v))
    /\ [][(CommitOk /\ res'.op = "get")
            => \A v \in Values :
                  (res'.key = sha3(v) /\ rc_of(res.drained, sha3(v)) = 1)
                      => res'.val = Some(v)]_vars

\* C9 witness: get returned, read through from the backing store, the content that
\* an earlier commit stored under its hash.
C9_Witness ==
    /\ res.op = "get"
    /\ \E v \in Values :
          /\ res.key = sha3(v)
          /\ res.val = Some(v)
          /\ backing_get(backing, sha3(v)) = Some(v)
          /\ rc_of(overlay, sha3(v)) = 0

\* Keys whose backing-store entry the last commit changed.
changed_keys == { k \in Keys : backing_get(backing, k) # backing_get(res.before, k) }

\* C10 as stated: a successful commit() returns the number of operations it staged,
\* the number of physical puts and deletes applied to the backing store.
C10_Original ==
    CommitOk => (res.ret = Len(res.batch) /\ res.ret = Cardinality(changed_keys))

\* C10 amended: a successful commit() returns the number of drained entries with a
\* net count of +1 or -1 (net insertions plus net deletions), whether or not an
\* operation was staged for them; the staged operations are the physical puts and
\* deletes applied; the two numbers are equal under Remove, and under Ignore the
\* returned count also counts the net deletions and the re-insertions of stored
\* content, for which nothing is staged.
C10_CommitCount ==
    CommitOk =>
        /\ res.ret = Cardinality({ k \in DOMAIN res.drained : res.drained[k].rc # 0 })
        /\ Len(res.batch) = Cardinality(changed_keys)
        /\ Len(res.batch) <= res.ret
        /\ mode = "Remove" => res.ret = Len(res.batch)
        /\ res.ret - Len(res.batch) =
              Cardinality({ k \in DOMAIN res.drained :
                              \/ res.drained[k].rc = 0 - 1 /\ mode = "Ignore"
                              \/ res.drained[k].rc = 1 /\ k \in DOMAIN res.before })

\* C10 witness: under Ignore a successful commit returned more than it staged.
C10_Witness == CommitOk /\ mode = "Ignore" /\ res.ret > Len(res.batch)


\* ------------------------------------------------- Database: properties
\* C2: last write wins. After flush_all() on an open store the engine holds, for
\* every key touched by put or delete, exactly the value of the last put when the
\* key's last operation was a put, and no value when it was a delete.
C2_LastWriteWins ==
    (dbres.op = "flush_all" /\ db) =>
        \A k \in DOMAIN latest : map_get(disk, k) = latest[k]

\* C11: read-your-writes. On an open store a get(key) issued right after
\* put(key, v), before any flush, returns v; issued right after delete(key), before
\* any flush, it returns no value, whatever the engine still holds for the key.
C11_ReadYourWrites ==
    [][(db /\ dbres.op \in {"put", "delete"} /\ dbres'.op = "get" /\ dbres'.key = dbres.key)
          => (dbres'.kind = "Ok" /\ dbres'.val = latest[dbres.key])]_vars

\* C12 as stated: on a store without an engine handle every one of put, delete,
\* write, get, get_by_prefix, is_empty, iter, flush and flush_all fails with
\* IsClosed and leaves the cache and the write log as they were.
C12_Original ==
    [][(~db /\ dbres'.op \in {"put", "delete", "write", "get", "get_by_prefix",
                              "is_empty", "iter", "flush", "flush_all"})
          => (dbres'.kind = "IsClosed" /\ cache' = cache /\ write_log' = write_log)]_vars

\* C12: on a store without an engine handle, write, get_by_prefix, is_empty and
\* iter fail with IsClosed and change nothing; get fails with IsClosed only when the
\* key is not in the write cache and returns the cached value otherwise; flush and
\* flush_all return success and change nothing; put and delete succeed and enqueue
\* the key in the cache and the log as on an open store.
C12_ClosedStore ==
    [][~db =>
        /\ dbres'.op \in {"write", "get_by_prefix", "is_empty", "iter"}
             => /\ dbres'.kind = "IsClosed"
                /\ UNCHANGED << cache, write_log, disk, iterators >>
        /\ dbres'.op = "get"
             => /\ UNCHANGED << cache, write_log, disk, iterators >>
                /\ IF dbres'.key \in DOMAIN cache
                   THEN dbres'.kind = "Ok" /\ dbres'.val = Some(cache[dbres'.key])
                   ELSE dbres'.kind = "IsClosed"
        /\ dbres'.op \in {"flush", "flush_all"}
             => /\ dbres'.kind = "Ok"
                /\ UNCHANGED << cache, write_log, disk, iterators >>
        /\ dbres'.op = "put"
             => /\ dbres'.kind = "Ok"
                /\ write_log' = Append(write_log, dbres'.key)
                /\ dbres'.key \in DOMAIN cache'
                /\ disk' = disk
        /\ dbres'.op = "delete"
             => /\ dbres'.kind = "Ok"
                /\ write_log' = Append(write_log, dbres'.key)
                /\ dbres'.key \notin DOMAIN cache'
                /\ disk' = disk]_vars

\* C12 witness: a closed store answered a get from its write cache, the key having
\* been put while the store was closed.
C12_Witness ==
    ~db /\ dbres.op = "get" /\ dbres.kind = "Ok" /\ is_some(dbres.val) /\ write_log # << >>

\* C13: close() makes pending writes durable. After a close() that returned
\* success the write log is empty and the engine holds, for every key whose last
\* operation was a put, the value of that put.
C13_CloseIsDurable ==
    (dbres.op = "close" /\ dbres.kind = "Ok") =>
        /\ write_log = << >>
        /\ \A k \in DOMAIN latest : is_some(latest[k]) => map_get(disk, k) = latest[k]

\* C14: the lifecycle is a two-state machine. open() on an open store fails with
\* AlreadyOpen and keeps the handle, and succeeds from the closed state; close() on
\* a closed store fails with IsClosed, and succeeds from the open state, releasing
\* the handle; no other operation changes the handle, and the two errors are
\* returned on these misuses only.
C14_Lifecycle ==
    [][/\ db \in BOOLEAN /\ db' \in BOOLEAN
       /\ dbres'.op = "open"
            => /\ db'
               /\ dbres'.kind = (IF db THEN "AlreadyOpen" ELSE "Ok")
       /\ dbres'.op = "close"
            => /\ ~db'
               /\ dbres'.kind = (IF db THEN "Ok" ELSE "IsClosed")
       /\ dbres'.op \notin {"open", "close"} => db' = db
       /\ dbres'.kind = "AlreadyOpen" => (dbres'.op = "open" /\ db)]_vars

\* C14 witness: an open() on an open store was refused and the store is still open.
C14_Witness == dbres.op = "open" /\ dbres.kind = "AlreadyOpen" /\ db

\* C15: iterator handles are never reused. Every handle returned by iter() is
\* strictly greater than every handle returned earlier, so a handle that was
\* disposed is never returned again.
C15_HandlesNeverReused ==
    [][(dbres'.op = "iter" /\ dbres'.kind = "Ok")
          => \A h \in handed : dbres'.key > h]_vars

\* C16: a handle is invalidated by dispose_iter and by close. After
\* dispose_iter(h) the iterator table holds no entry for h; after a successful
\* close() it holds no entry for any handle allocated before; and iter_next on a
\* handle allocated before the close returns no result.
C16_HandleInvalidated ==
    /\ dbres.op = "dispose_iter" => dbres.key \notin DOMAIN iterators
    /\ (dbres.op = "close" /\ dbres.kind = "Ok") => \A h \in handed : h \notin DOMAIN iterators
    /\ (dbres.op = "iter_next" /\ dbres.key \in dangling)
           => (dbres.kind = "Ok" /\ dbres.item = None)

\* C17: an engine failure during a flush is propagated. When the engine rejects
\* the batch write issued by flush() or flush_all(), the call returns an error and
\* never reports success for a batch that was not written.
C17_FlushFailurePropagated ==
    (dbres.op \in {"flush", "flush_all"} /\ io_failed) => dbres.kind # "Ok"

\* The value get_by_prefix is to return on an open store: that of the smallest
\* engine key >= prefix when the key starts with the prefix, none otherwise.
prefix_lookup(content, prefix) ==
    LET ks == { k \in DOMAIN content : bytes_le(prefix, key_bytes(k)) } IN
    IF ks = {} THEN None
    ELSE LET k == CHOOSE m \in ks : \A j \in ks : bytes_le(key_bytes(m), key_bytes(j)) IN
         IF /\ Len(key_bytes(k)) >= Len(prefix)
            /\ \A n \in 1 .. Len(prefix) : key_bytes(k)[n] = prefix[n]
         THEN Some(content[k])
         ELSE None

\* C18: get_by_prefix(prefix) on an open store returns the value of the smallest
\* engine key >= prefix when that key's first len(prefix) bytes equal the prefix,
\* and none otherwise, also when that key is shorter than the prefix; it never
\* fails or panics.
C18_GetByPrefix ==
    (dbres.op = "get_by_prefix" /\ db)
        => (dbres.kind = "Ok" /\ dbres.val = prefix_lookup(disk, dbres.prefix))

\* The keys with an entry in the write log.
log_keys == { write_log[i] : i \in 1 .. Len(write_log) }

\* C19 as stated: in every reachable state the cache holds at most capacity keys.
C19_Original == Cardinality(DOMAIN cache) <= cache_len

\* C19: the capacity bounds the cached keys that have no pending log entry. In
\* every reachable state at most capacity keys of the cache are absent from the
\* write log; write() can raise the cache above the capacity, by no more than the
\* number of distinct keys pending in the log.
C19_CacheBound ==
    /\ Cardinality(DOMAIN cache \ log_keys) <= cache_len
    /\ Cardinality(DOMAIN cache) <= cache_len + Cardinality(log_keys)

\* C19 witness: the cache is over its capacity and holds a key that is no longer
\* pending in the log.
C19_Witness ==
    /\ Cardinality(DOMAIN cache) > cache_len
    /\ DOMAIN cache \ log_keys # {}

\* The write cache after capacity + 1 distinct keys were written to an empty one:
\* each key is cached and has exactly one log entry.
one_over_capacity ==
    /\ Len(write_log) = cache_len + 1
    /\ Cardinality(log_keys) = cache_len + 1
    /\ DOMAIN cache = log_keys

\* C20: eviction on overflow. When capacity + 1 distinct keys were written to an
\* empty write cache and the whole log is flushed on an open store, the key written
\* first is no longer cached, every one of the keys is in the engine with its
\* value, and get() still returns the written value for each of them.
C20_OverflowFlush ==
    [][(db /\ one_over_capacity /\ dbres'.op \in {"flush", "flush_all"})
          => /\ write_log' = << >>
             /\ Head(write_log) \notin DOMAIN cache'
             /\ \A k \in log_keys :
                   /\ map_get(disk', k) = Some(cache[k])
                   /\ db_get(write_que', db', disk', k) = [kind |-> "Ok", val |-> Some(cache[k])]]_vars

\* C20 witness: a flush emptied the log, the cache is at its capacity and the
\* engine holds one key more than the cache, the cached keys among them.
C20_Witness ==
    /\ db /\ dbres.op \in {"flush", "flush_all"}
    /\ write_log = << >>
    /\ Cardinality(DOMAIN cache) = cache_len
    /\ Cardinality(DOMAIN disk) = cache_len + 1
    /\ DOMAIN cache \subseteq DOMAIN disk
    /\ \A k \in DOMAIN disk : map_get(latest, k) = Some(Some(disk[k]))

\* The keys a transaction puts, and those it deletes.
tx_puts(ops) == { ops[i].key : i \in { j \in 1 .. Len(ops) : ops[j].op = "put" } }
tx_deletes(ops) == { ops[i].key : i \in { j \in 1 .. Len(ops) : ops[j].op = "delete" } }
\* The value of the last put of key k in ops (k is put in ops).
tx_last_put(ops, k) ==
    LET last == CHOOSE i \in 1 .. Len(ops) :
                    /\ ops[i].op = "put" /\ ops[i].key = k
                    /\ \A j \in (i + 1) .. Len(ops) : ~(ops[j].op = "put" /\ ops[j].key = k)
    IN ops[last].value

\* C21: write(transaction) takes effect for readers. After a write(transaction)
\* that returned success, get(k) returns v for every key the transaction puts (and
\* does not delete), v the value it put last, and no value for every key it deletes
\* (and does not put), whatever put, delete and flush calls preceded it.
C21_WriteVisibleToGet ==
    [][(dbres'.op = "write" /\ dbres'.kind = "Ok")
          => /\ \A k \in tx_puts(dbres'.ops) \ tx_deletes(dbres'.ops) :
                   db_get(write_que', db', disk', k)
                       = [kind |-> "Ok", val |-> Some(tx_last_put(dbres'.ops, k))]
             /\ \A k \in tx_deletes(dbres'.ops) \ tx_puts(dbres'.ops) :
                   db_get(write_que', db', disk', k) = [kind |-> "Ok", val |-> None]]_vars

\* C24: write(transaction) applies the transaction as an ordered collection. A
\* successful write leaves the engine as if the transaction's put and delete
\* operations had been applied one by one in the order they were added, so for a
\* key both put and deleted in one transaction the operation added last decides.
C24_WriteOrdered ==
    [][(dbres'.op = "write" /\ dbres'.kind = "Ok")
          => disk' = DB_write(disk, dbres'.ops)]_vars

\* ------------------------------------------------ OverlayDB: further properties
\* C22: revert() discards every pending insert/remove and leaves the backing store
\* unchanged: a revert() step empties the overlay and keeps the backing store, and a
\* commit() that follows it at once succeeds with count 0 and writes nothing.
C22_RevertDiscards ==
    [][/\ res'.op = "revert" => (overlay' = EmptyMap /\ backing' = backing)
       /\ (res.op = "revert" /\ res'.op = "commit")
            => /\ res'.kind = "Ok" /\ res'.ret = 0 /\ res'.batch = << >>
               /\ backing' = backing]_vars

\* C22 witness: a revert() on a store that holds content left an empty overlay.
C22_Witness == res.op = "revert" /\ overlay = EmptyMap /\ backing # EmptyMap

\* contains(key) as the code computes it: get(key).is_some().
contains_result(m, data, store, key) == is_some(get_result(m, data, store, key).val)

\* The value v with hash(v) = key.
preimage(key) == CHOOSE v \in Values : sha3(v) = key

C27_FailedCommitDrains ==
    /\ [](CommitFailed => (overlay = EmptyMap /\ backing = res.before))
    /\ [][(CommitFailed /\ res'.op = "commit")
            => /\ res'.kind = "Ok" /\ res'.ret = 0 /\ res'.batch = << >>
               /\ res'.drained = EmptyMap
               /\ backing' = backing]_vars

\* C27 witness: a failed commit() that drained, with the failing entry, an entry
\* that passes the validation on its own.
C27_Witness ==
    /\ CommitFailed /\ overlay = EmptyMap
    /\ \E k \in DOMAIN res.drained :
          /\ res.drained[k].rc # 0
          /\ ~entry_fails(mode, res.before, res.drained, k)

RECURSIVE cache_before(_, _, _, _)
cache_before(c, log, cap, i) ==
    IF i <= 1 THEN c
    ELSE LET b == cache_before(c, log, cap, i - 1) IN
         IF Cardinality(DOMAIN b) > cap THEN map_remove(b, log[i - 1]) ELSE b

\* C25: flush(n) removes exactly min(n, length of the log) entries from the front
\* of the write log and leaves the rest unchanged and in order; every popped key is
\* staged, in the order popped, as a put of its current cached value or, if absent
\* from the cache, as a delete; and a key leaves the cache only if it was popped
\* while the cache size exceeded the capacity.
C25_FlushPopsFront ==
    [][dbres'.op = "que_flush" =>
        LET n == dbres'.key
            m == IF n < Len(write_log) THEN n ELSE Len(write_log)
            staged == dbres'.batch
        IN /\ write_log' = SubSeq(write_log, m + 1, Len(write_log))
           /\ Len(staged) = m
           /\ \A i \in 1 .. m :
                 LET k == write_log[i]
                     b == cache_before(cache, write_log, cache_len, i)
                 IN staged[i] = IF k \in DOMAIN b
                                THEN [op |-> "put", key |-> k, value |-> cache[k]]
                                ELSE [op |-> "delete", key |-> k, value |-> 0]
           /\ \A k \in DOMAIN cache \ DOMAIN cache' :
                 \E i \in 1 .. m :
                     /\ write_log[i] = k
                     /\ Cardinality(DOMAIN cache_before(cache, write_log, cache_len, i)) > cache_len
           /\ \A k \in DOMAIN cache' : k \in DOMAIN cache /\ cache'[k] = cache[k]
           /\ disk' = DB_write(disk, staged)]_vars

\* C25 witness: a flush(n) with n below the length of the log popped n entries,
\* staged them and left the rest of the log.
C25_Witness ==
    /\ dbres.op = "que_flush" /\ dbres.key > 0
    /\ Len(dbres.batch) = dbres.key
    /\ write_log # << >>

\* C30: starting from an empty WriteQue, in every reachable state in which the
\* write log is empty the cache holds at most capacity keys, for any sequence of
\* write, remove, flush(n) and flush_all.
C30_EmptyLogBound == write_log = << >> => Cardinality(DOMAIN cache) <= cache_len

\* C30 witness: a flush emptied the log of a cache that had been over its capacity:
\* it staged more puts than the capacity and the cache is now at its capacity.
C30_Witness ==
    /\ dbres.op = "que_flush" /\ write_log = << >>
    /\ Len(dbres.batch) > cache_len
    /\ Cardinality(DOMAIN cache) = cache_len
    /\ Cardinality({ dbres.batch[i].key : i \in { j \in DOMAIN dbres.batch : dbres.batch[j].op = "put" } }) > cache_len

\* ------------------------------------------- Database: close() and flush_all()
\* C26: flush_all() on an open store terminates and returns with the log empty:
\* every flush it makes pops at least one entry (a flush is only made on a
\* non-empty log, each counted turn of its loop takes one entry off the log, and
\* it leaves its loop with at least one turn counted), no step appends to the log,
\* flush_all() returns Ok only on an empty log, and a flush_all() that entered its
\* loop does return.
C26_FlushAllTerminates ==
    /\ []((pc.at = "flush" /\ pc.so_far = 0) => write_log # << >>)
    /\ [](pc.at = "db_write" => pc.so_far >= 1)
    /\ [][pc'.so_far = pc.so_far + 1 => write_log' = Tail(write_log)]_vars
    /\ [][pc.at # "idle" => Len(write_log') <= Len(write_log)]_vars
    /\ [][(pc.at = "flush_all" /\ pc'.at = "idle")
            => (write_log' = << >> /\ dbres'.op = "flush_all" /\ dbres'.kind = "Ok")]_vars
    /\ (pc.at = "flush_all") ~> (pc.at = "idle" /\ write_log = << >>)

\* C26 witness: a flush_all() returned after two flushes or more, the first of
\* which was a whole batch.
C26_Witness ==
    /\ pc.at = "idle" /\ dbres.op = "flush_all" /\ dbres.kind = "Ok"
    /\ dbres.key >= 2 /\ write_log = << >> /\ disk # EmptyMap

\* C29: close() is atomic with respect to concurrent writers. Whenever close()
\* returns success the write log is empty: no put or delete that completed before
\* the handle was released is left in the log.
C29_CloseAtomic ==
    (dbres.op = "close" /\ dbres.kind = "Ok") => write_log = << >>

\* ---------------------------------------------- ContentFetcherHandler: properties
\* C31: the fetch client is closed at most once. Under any sequence of callbacks
\* and any fetch outcome no expect() fails and Client::close runs at most once;
\* it runs only in a step that takes the client and moves the status out of
\* InProgress; and the status is InProgress only when entered from NotStarted,
\* and never NotStarted again.
C31_ClientClosedOnce ==
    /\ [](fres.closes <= 1 /\ fres.panics = 0)
    /\ [](fres.closes = 1 => (~fetcher.client /\ fetcher.status \in {"Error", "Done"}))
    /\ [][fres'.closes # fres.closes
            => (/\ fres'.closes = fres.closes + 1
                /\ fres'.op = "on_request_readable"
                /\ fetcher.status = "InProgress" /\ fetcher'.status # "InProgress"
                /\ fetcher.client /\ ~fetcher'.client)]_vars
    /\ [][(fetcher.status # "InProgress" /\ fetcher'.status = "InProgress")
            => fetcher.status = "NotStarted"]_vars
    /\ [][fetcher'.status = "NotStarted" => fetcher.status = "NotStarted"]_vars

\* C31 witness: the client was closed on a timeout or a failed validation, and
\* on_request was called again afterwards.
C31_Witness ==
    /\ fres.closes = 1 /\ ~fetcher.client
    /\ fetcher.status = "Error" /\ fres.op = "on_request"

=============================================================================
